---- MODULE Spec2Model ----
(***************************************************************************)
(* A model of main.py: the Scheduler registry, the Job builder chain       *)
(* (every / unit accessors / at / do), Job._schedule_next_run, and the two *)
(* runners run_pending and run_all.                                        *)
(*                                                                         *)
(* Instants are whole seconds counted from a midnight (instant 0), so the  *)
(* minute of an instant is (t \div 60) % 60 and its hour (t \div 3600) % 24.*)
(* The microsecond field of datetime is not represented: every instant has *)
(* microsecond 0.  A timedelta is a number of seconds.                     *)
(*                                                                         *)
(* datetime.now() is the variable now; the environment advances it with    *)
(* Tick.  A runner call is a little process: its position is pc[t], and    *)
(* Job.run is two steps (the action is called; last_run and next_run are   *)
(* updated) so that the clock can move while the action executes.          *)
(***************************************************************************)
EXTENDS Integers, Sequences, FiniteSets, TLC

\* ------------------------------------------------------------------ bounds
MaxJobs == 2
MaxTicks == 2
MaxInterval == 2

\* --------------------------------------------------------------- constants
SecondsPerMinute == 60
SecondsPerHour == 3600
SecondsPerDay == 86400
SecondsPerWeek == 604800
MinutesPerHour == 60

\* None for the optional instants, the optional time of day and the period.
NoTime == -1

Units == {"seconds", "minutes", "hours", "days", "weeks"}
NoUnit == "None"
NoFunc == "None"
BoundFunc == "partial"

\* every(interval): the interval counts the model draws from.  0 is accepted
\* by the code as well as the positive counts.
Intervals == 0..MaxInterval
RegistryIntervals == 1..MaxInterval
RegistryUnits == {"seconds", "hours"}

\* The "HH:MM" strings handed to at(), as the list of integer fields that
\* time_value.split(':') followed by int() yields.  <<9>> has no ':'.
TimeValues == {<<0, 30>>, <<24, 30>>, <<0, 60>>, <<9>>}

\* The instant the program is started at: 10:15:20 of day 1.
StartTimes == {123320}

\* What the clock may advance by in one step: one second, half an hour, and
\* (for the single-job specification) two weeks.
TickSteps == {1, 1800}
LongTickSteps == {1, 1800, 1209600}

\* sleep(delay_second) arguments of run_all.
Delays == {0, 1}

\* The threads that call into the scheduler, and the one the single-threaded
\* specifications run every call on.
Threads == {"main", "worker"}
MainThread == {"main"}

VARIABLES
    now,        \* datetime.now()
    ticks,      \* how many times the clock has advanced (bounds the model)
    jobs,       \* Scheduler.jobs: the sequence of Job objects
    pc,         \* per caller: "idle", "loop" (between two jobs), "update"
    kind,       \* per caller: the runner in progress or last finished
    todo,       \* run_pending: the rest of sorted(all_jobs), as indices
    idx,        \* run_all: the list iterator's position in self.jobs
    cur,        \* the job whose run() is in progress (0: none)
    delay,      \* run_all: its delay_second argument
    executed,   \* history: the jobs whose action was called in this call
    scanNow,    \* history: the instant of the run_pending scan
    scanNext,   \* history: every job's next_run at that scan
    last        \* the outcome of the most recent API call

vars == <<now, ticks, jobs, pc, kind, todo, idx, cur, delay, executed,
          scanNow, scanNext, last>>

callVars == <<pc, kind, todo, idx, cur, delay, executed, scanNow, scanNext>>

\* ------------------------------------------------------------ pure helpers

\* The elements of a sequence.
Range(s) == {s[i] : i \in DOMAIN s}

\* Job.__init__
NewJob(interval) ==
    [interval |-> interval, period |-> NoTime, unit |-> NoUnit,
     job_func |-> NoFunc, last_run |-> NoTime, next_run |-> NoTime,
     at_time |-> NoTime]

\* timedelta(**{unit: 1})
UnitSeconds(unit) ==
    CASE unit = "seconds" -> 1
      [] unit = "minutes" -> SecondsPerMinute
      [] unit = "hours" -> SecondsPerHour
      [] unit = "days" -> SecondsPerDay
      [] unit = "weeks" -> SecondsPerWeek

\* Mutant of TimeDelta: the interval count is dropped, timedelta(**{unit: 1}).
TimeDeltaOfOne(unit, interval) == UnitSeconds(unit)

\* timedelta(**{unit: interval})
TimeDelta(unit, interval) == interval * UnitSeconds(unit)

\* Mutant of MinuteOf: the hour field is read instead of the minute field.
MinuteOfHourField(t) == (t \div SecondsPerHour) % 24

\* datetime.minute
MinuteOf(t) == (t \div SecondsPerMinute) % MinutesPerHour

\* time(hour=hour, minute=minute), as the minute of the day
MakeTime(hour, minute) == hour * MinutesPerHour + minute

\* time.minute
TimeMinute(at) == at % MinutesPerHour

\* Mutant of ReplaceMinute: replace(minute=m) without second=0.
ReplaceMinuteKeepsSecond(t, m) ==
    (t - (t % SecondsPerHour)) + m * SecondsPerMinute + (t % SecondsPerMinute)

\* datetime.replace(minute=m, second=0, microsecond=0)
ReplaceMinute(t, m) == (t - (t % SecondsPerHour)) + m * SecondsPerMinute

\* The outcome record of an API call.
Outcome(op, job, status, val) ==
    [op |-> op, job |-> job, status |-> status, val |-> val]

\* Job._schedule_next_run at instant t: the job afterwards and the exception
\* raised ("ok": none).  The assignments made before a raise are kept.
ScheduleNextRun(job, t) ==
    IF job.unit \notin Units
    THEN [job |-> job, status |-> "SchedulerValueError"]
    ELSE LET period == TimeDelta(job.unit, job.interval)
             j1 == [job EXCEPT !.period = period, !.next_run = t + period]
         IN IF job.at_time = NoTime
            THEN [job |-> j1, status |-> "ok"]
            ELSE IF job.unit \notin {"hours", "days"}
            THEN [job |-> j1, status |-> "SchedulerValueError"]
            ELSE IF job.unit = "days"
            \* kwargs['hours'] is not a keyword of datetime.replace
            THEN [job |-> j1, status |-> "TypeError"]
            ELSE LET pinned == ReplaceMinute(j1.next_run, TimeMinute(job.at_time))
                     first == IF job.last_run = NoTime
                                 /\ TimeMinute(job.at_time) > MinuteOf(t)
                              THEN pinned - SecondsPerHour
                              ELSE pinned
                 IN [job |-> [j1 EXCEPT !.next_run = first], status |-> "ok"]

\* Job.should_run at instant t; None <= datetime raises TypeError, which the
\* callers test with HasNextRun first.
HasNextRun(job) == job.next_run # NoTime
ShouldRun(job, t) == job.next_run <= t

\* ------------------------------------------------------------------ sorting

\* Job.__lt__
Lt(a, b) == a.next_run <= b.next_run

\* reverse_slice
RECURSIVE Reverse(_)
Reverse(s) == IF s = <<>> THEN <<>> ELSE Append(Reverse(Tail(s)), Head(s))

\* count_run of list.sort: the length of the run that starts s, n elements
\* of which are already known to be in it.
RECURSIVE RunLen(_, _, _, _)
RunLen(s, js, n, desc) ==
    IF n = Len(s) THEN n
    ELSE LET lt == Lt(js[s[n + 1]], js[s[n]])
         IN IF lt = desc THEN RunLen(s, js, n + 1, desc) ELSE n

\* binarysort's search: where pivot goes in s[l..r-1]
RECURSIVE BinarySearch(_, _, _, _, _)
BinarySearch(s, js, pivot, l, r) ==
    IF l >= r THEN l
    ELSE LET p == l + ((r - l) \div 2)
         IN IF Lt(js[pivot], js[s[p]])
            THEN BinarySearch(s, js, pivot, l, p)
            ELSE BinarySearch(s, js, pivot, p + 1, r)

\* binarysort: s[1..start-1] is sorted; insert s[start..] one by one
RECURSIVE BinarySort(_, _, _)
BinarySort(s, js, start) ==
    IF start > Len(s) THEN s
    ELSE LET pivot == s[start]
             l == BinarySearch(s, js, pivot, 1, start)
             moved == [i \in 1..Len(s) |->
                          IF i < l \/ i > start THEN s[i]
                          ELSE IF i = l THEN pivot
                          ELSE s[i - 1]]
         IN BinarySort(moved, js, start + 1)

\* sorted(jobs) for fewer than 64 elements: list.sort finds the first run,
\* reverses it when it is descending, and binary-inserts the rest.  s is a
\* sequence of indices into js.
ListSort(s, js) ==
    IF Len(s) < 2 THEN s
    ELSE LET desc == Lt(js[s[2]], js[s[1]])
             n == RunLen(s, js, 2, desc)
             s1 == IF desc
                   THEN Reverse(SubSeq(s, 1, n)) \o SubSeq(s, n + 1, Len(s))
                   ELSE s
         IN BinarySort(s1, js, n + 1)

\* (job for job in self.jobs if job.should_run), as indices
RECURSIVE DueFrom(_, _, _)
DueFrom(js, t, i) ==
    IF i > Len(js) THEN <<>>
    ELSE IF ShouldRun(js[i], t) THEN <<i>> \o DueFrom(js, t, i + 1)
    ELSE DueFrom(js, t, i + 1)

\* min(self.jobs): the index of the job min returns
RECURSIVE MinFrom(_, _, _)
MinFrom(js, best, i) ==
    IF i > Len(js) THEN best
    ELSE MinFrom(js, IF Lt(js[i], js[best]) THEN i ELSE best, i + 1)

\* Scheduler.next_run
NextRunResult(js) ==
    IF js = <<>> THEN [status |-> "ok", val |-> NoTime]
    ELSE IF Len(js) >= 2 /\ \E i \in DOMAIN js : ~HasNextRun(js[i])
    THEN [status |-> "TypeError", val |-> NoTime]
    ELSE [status |-> "ok", val |-> js[MinFrom(js, 1, 2)].next_run]

\* Mutant of IdleSecondsResult: an absent next_run is returned as it is
\* instead of being subtracted from.
IdleSecondsResultLenient(js, t) ==
    LET r == NextRunResult(js)
    IN IF r.status # "ok" THEN [status |-> "TypeError", val |-> NoTime]
       ELSE IF r.val = NoTime THEN [status |-> "ok", val |-> NoTime]
       ELSE [status |-> "ok", val |-> r.val - t]

\* Scheduler.idle_seconds
IdleSecondsResult(js, t) ==
    LET r == NextRunResult(js)
    IN IF r.status # "ok" \/ r.val = NoTime
       THEN [status |-> "TypeError", val |-> NoTime]
       ELSE [status |-> "ok", val |-> r.val - t]

\* ---------------------------------------------------------------- actions

Init ==
    /\ now \in StartTimes
    /\ ticks = 0
    /\ jobs = <<>>
    /\ pc = [t \in Threads |-> "idle"]
    /\ kind = [t \in Threads |-> "none"]
    /\ todo = [t \in Threads |-> <<>>]
    /\ idx = [t \in Threads |-> 0]
    /\ cur = [t \in Threads |-> 0]
    /\ delay = [t \in Threads |-> 0]
    /\ executed = [t \in Threads |-> <<>>]
    /\ scanNow = [t \in Threads |-> NoTime]
    /\ scanNext = [t \in Threads |-> <<>>]
    /\ last = Outcome("none", 0, "ok", NoTime)

\* The configuration calls run on the caller's thread: between calls, or
\* from inside a job's action while a runner is between two jobs.
CanConfigure == \A t \in Threads : pc[t] \in {"idle", "loop"}

\* A configuration call or query made between two runner calls ends the
\* record of the previous runner call; one made inside a call leaves it.
Forget ==
    /\ pc' = pc
    /\ todo' = todo
    /\ idx' = idx
    /\ cur' = cur
    /\ delay' = delay
    /\ kind' = [t \in Threads |-> IF pc[t] = "idle" THEN "none" ELSE kind[t]]
    /\ executed' = [t \in Threads |-> IF pc[t] = "idle" THEN <<>> ELSE executed[t]]
    /\ scanNow' = [t \in Threads |-> IF pc[t] = "idle" THEN NoTime ELSE scanNow[t]]
    /\ scanNext' = [t \in Threads |-> IF pc[t] = "idle" THEN <<>> ELSE scanNext[t]]

\* The clock advances.
Tick(steps) ==
    /\ ticks < MaxTicks
    /\ \E d \in steps : now' = now + d
    /\ ticks' = ticks + 1
    /\ UNCHANGED <<jobs, callVars, last>>

\* Mutant of Every: the new job is inserted at the front of self.jobs.
EveryPrepends(intervals, max) ==
    /\ CanConfigure
    /\ Len(jobs) < max
    /\ \E n \in intervals :
          /\ jobs' = <<NewJob(n)>> \o jobs
          /\ last' = Outcome("every", Len(jobs) + 1, "ok", NoTime)
    /\ Forget
    /\ UNCHANGED <<now, ticks>>

\* Scheduler.every(interval)
Every(intervals, max) ==
    /\ CanConfigure
    /\ Len(jobs) < max
    /\ \E n \in intervals :
          /\ jobs' = Append(jobs, NewJob(n))
          /\ last' = Outcome("every", Len(jobs) + 1, "ok", NoTime)
    /\ Forget
    /\ UNCHANGED <<now, ticks>>

\* The jobs a specification lets the caller reconfigure: every job, or only
\* those that do() has not been called on yet.
Targets(all) == {j \in DOMAIN jobs : all \/ jobs[j].job_func = NoFunc}

\* Mutant of Singular: the interval is not looked at.
SingularUnchecked(units, all) ==
    /\ CanConfigure
    /\ \E j \in Targets(all), u \in units :
          /\ jobs' = [jobs EXCEPT ![j].unit = u]
          /\ last' = Outcome("singular", j, "ok", NoTime)
    /\ Forget
    /\ UNCHANGED <<now, ticks>>

\* Job.second, .minute, .hour, .day, .week
Singular(units, all) ==
    /\ CanConfigure
    /\ \E j \in Targets(all), u \in units :
          IF jobs[j].interval # 1
          THEN /\ last' = Outcome("singular", j, "IntervalError", NoTime)
               /\ UNCHANGED jobs
          ELSE /\ jobs' = [jobs EXCEPT ![j].unit = u]
               /\ last' = Outcome("singular", j, "ok", NoTime)
    /\ Forget
    /\ UNCHANGED <<now, ticks>>

\* Job.seconds, .minutes, .hours, .days, .weeks
Plural(units, all) ==
    /\ CanConfigure
    /\ \E j \in Targets(all), u \in units :
          /\ jobs' = [jobs EXCEPT ![j].unit = u]
          /\ last' = Outcome("plural", j, "ok", NoTime)
    /\ Forget
    /\ UNCHANGED <<now, ticks>>

\* Mutant of AtResult: time_value is split before the unit is looked at.
AtResultParsesFirst(job, tv) ==
    IF Len(tv) # 2
    THEN [job |-> job, status |-> "ValueError"]
    ELSE IF job.unit \notin {"hours", "days"}
    THEN [job |-> job, status |-> "SchedulerValueError"]
    ELSE IF job.unit = "days" /\ ~(0 <= tv[1] /\ tv[1] <= 23)
    THEN [job |-> job, status |-> "SchedulerValueError"]
    ELSE IF ~(0 <= tv[2] /\ tv[2] <= 59)
    THEN [job |-> job, status |-> "SchedulerValueError"]
    ELSE [job |-> [job EXCEPT !.at_time =
                      MakeTime(IF job.unit = "days" THEN tv[1] ELSE 0, tv[2])],
          status |-> "ok"]

\* Mutant of AtResult: at_time is reset to None before the fields are
\* validated, so a rejected hour or minute loses the previous anchor.
AtResultClearsAnchor(job, tv) ==
    IF job.unit \notin {"hours", "days"}
    THEN [job |-> job, status |-> "SchedulerValueError"]
    ELSE IF Len(tv) # 2
    THEN [job |-> job, status |-> "ValueError"]
    ELSE IF job.unit = "days" /\ ~(0 <= tv[1] /\ tv[1] <= 23)
    THEN [job |-> [job EXCEPT !.at_time = NoTime], status |-> "SchedulerValueError"]
    ELSE IF ~(0 <= tv[2] /\ tv[2] <= 59)
    THEN [job |-> [job EXCEPT !.at_time = NoTime], status |-> "SchedulerValueError"]
    ELSE [job |-> [job EXCEPT !.at_time =
                      MakeTime(IF job.unit = "days" THEN tv[1] ELSE 0, tv[2])],
          status |-> "ok"]

\* Job.at(time_value): the job afterwards and the exception raised.
AtResult(job, tv) ==
    IF job.unit \notin {"hours", "days"}
    THEN [job |-> job, status |-> "SchedulerValueError"]
    ELSE IF Len(tv) # 2
    THEN [job |-> job, status |-> "ValueError"]
    ELSE IF job.unit = "days" /\ ~(0 <= tv[1] /\ tv[1] <= 23)
    THEN [job |-> job, status |-> "SchedulerValueError"]
    ELSE IF ~(0 <= tv[2] /\ tv[2] <= 59)
    THEN [job |-> job, status |-> "SchedulerValueError"]
    ELSE [job |-> [job EXCEPT !.at_time =
                      MakeTime(IF job.unit = "days" THEN tv[1] ELSE 0, tv[2])],
          status |-> "ok"]

At(all) ==
    /\ CanConfigure
    /\ \E j \in Targets(all), tv \in TimeValues :
          LET r == AtResult(jobs[j], tv)
          IN /\ jobs' = [jobs EXCEPT ![j] = r.job]
             /\ last' = Outcome("at", j, r.status, NoTime)
    /\ Forget
    /\ UNCHANGED <<now, ticks>>

\* Job.do(job_func)
DoResult(job, t) == ScheduleNextRun([job EXCEPT !.job_func = BoundFunc], t)

Do ==
    /\ CanConfigure
    /\ \E j \in DOMAIN jobs :
          LET r == DoResult(jobs[j], now)
          IN /\ jobs' = [jobs EXCEPT ![j] = r.job]
             /\ last' = Outcome("do", j, r.status, NoTime)
    /\ Forget
    /\ UNCHANGED <<now, ticks>>

\* Scheduler.next_run and Scheduler.idle_seconds, read by the caller
QueryNextRun ==
    /\ CanConfigure
    /\ LET r == NextRunResult(jobs)
       IN last' = Outcome("next_run", 0, r.status, r.val)
    /\ Forget
    /\ UNCHANGED <<now, ticks, jobs>>

QueryIdleSeconds ==
    /\ CanConfigure
    /\ LET r == IdleSecondsResult(jobs, now)
       IN last' = Outcome("idle_seconds", 0, r.status, r.val)
    /\ Forget
    /\ UNCHANGED <<now, ticks, jobs>>

\* A runner call begins: the history of the previous call is dropped.
Begin(t, k, d) ==
    /\ kind' = [kind EXCEPT ![t] = k]
    /\ delay' = [delay EXCEPT ![t] = d]
    /\ executed' = [executed EXCEPT ![t] = <<>>]
    /\ cur' = [cur EXCEPT ![t] = 0]

\* Scheduler.run_pending up to the end of sorted(all_jobs)
RunPending(t) ==
    /\ pc[t] = "idle"
    /\ Begin(t, "run_pending", 0)
    /\ scanNow' = [scanNow EXCEPT ![t] = now]
    /\ scanNext' = [scanNext EXCEPT ![t] = [j \in DOMAIN jobs |-> jobs[j].next_run]]
    /\ idx' = [idx EXCEPT ![t] = 0]
    /\ IF \E j \in DOMAIN jobs : ~HasNextRun(jobs[j])
       THEN \* should_run compares None with datetime.now()
            /\ todo' = [todo EXCEPT ![t] = <<>>]
            /\ pc' = pc
            /\ last' = Outcome("run_pending", 0, "TypeError", NoTime)
       ELSE LET sorted == ListSort(DueFrom(jobs, now, 1), jobs)
            IN /\ todo' = [todo EXCEPT ![t] = sorted]
               /\ pc' = [pc EXCEPT ![t] = IF sorted = <<>> THEN "idle" ELSE "loop"]
               /\ last' = IF sorted = <<>>
                          THEN Outcome("run_pending", 0, "ok", NoTime)
                          ELSE last
    /\ UNCHANGED <<now, ticks, jobs>>

\* Scheduler.run_all up to the first job.run()
RunAll(t, delays) ==
    /\ pc[t] = "idle"
    /\ \E d \in delays : Begin(t, "run_all", IF jobs = <<>> THEN 0 ELSE d)
    /\ scanNow' = [scanNow EXCEPT ![t] = NoTime]
    /\ scanNext' = [scanNext EXCEPT ![t] = <<>>]
    /\ todo' = [todo EXCEPT ![t] = <<>>]
    /\ idx' = [idx EXCEPT ![t] = IF jobs = <<>> THEN 0 ELSE 1]
    /\ pc' = [pc EXCEPT ![t] = IF jobs = <<>> THEN "idle" ELSE "loop"]
    /\ last' = IF jobs = <<>> THEN Outcome("run_all", 0, "ok", NoTime) ELSE last
    /\ UNCHANGED <<now, ticks, jobs>>

\* Mutant of NextJob: run_all walks reversed(self.jobs).
NextJobReversed(t) ==
    IF kind[t] = "run_pending" THEN Head(todo[t]) ELSE Len(jobs) + 1 - idx[t]

\* Mutant of NextJob: run_pending filters lazily, taking the first job that
\* is due when the loop asks for the next one.
NextJobLazy(t) ==
    IF kind[t] = "run_pending"
    THEN LET due == {j \in DOMAIN jobs :
                        HasNextRun(jobs[j]) /\ ShouldRun(jobs[j], now)}
         IN IF due = {} THEN Head(todo[t])
            ELSE CHOOSE j \in due : \A k \in due : j <= k
    ELSE idx[t]

\* The job the loop of the runner in progress runs next.
NextJob(t) == IF kind[t] = "run_pending" THEN Head(todo[t]) ELSE idx[t]

\* The runner returns or an exception leaves it: its frame is gone.
Leave(t) ==
    /\ pc' = [pc EXCEPT ![t] = "idle"]
    /\ todo' = [todo EXCEPT ![t] = <<>>]
    /\ idx' = [idx EXCEPT ![t] = 0]
    /\ cur' = [cur EXCEPT ![t] = 0]
    /\ delay' = [delay EXCEPT ![t] = 0]

\* Job.run, line 160: ret = self.job_func() returns.
ActionReturns(t) ==
    /\ pc[t] = "loop"
    /\ jobs[NextJob(t)].job_func # NoFunc
    /\ cur' = [cur EXCEPT ![t] = NextJob(t)]
    /\ executed' = [executed EXCEPT ![t] = Append(@, NextJob(t))]
    /\ todo' = [todo EXCEPT ![t] = IF kind[t] = "run_pending" THEN Tail(@) ELSE @]
    /\ pc' = [pc EXCEPT ![t] = "update"]
    /\ UNCHANGED <<now, ticks, jobs, kind, idx, delay, scanNow, scanNext, last>>

\* Mutant of ActionRaises: last_run is set before the action is called, so a
\* raising action leaves it changed.
ActionRaisesAfterLastRun(t) ==
    /\ pc[t] = "loop"
    /\ executed' = [executed EXCEPT ![t] = Append(@, NextJob(t))]
    /\ Leave(t)
    /\ jobs' = [jobs EXCEPT ![NextJob(t)].last_run = now]
    /\ last' = Outcome(kind[t], NextJob(t),
                       IF jobs[NextJob(t)].job_func = NoFunc
                       THEN "TypeError" ELSE "ActionError", NoTime)
    /\ UNCHANGED <<now, ticks, kind, scanNow, scanNext>>

\* Mutant of ActionRaises: run_pending catches the exception, runs the rest
\* of its due jobs and raises afterwards.
ActionRaisesDeferred(t) ==
    /\ pc[t] = "loop"
    /\ executed' = [executed EXCEPT ![t] =
                       IF kind[t] = "run_pending" THEN @ \o todo[t]
                       ELSE Append(@, NextJob(t))]
    /\ Leave(t)
    /\ jobs' = [j \in DOMAIN jobs |->
                  IF kind[t] = "run_pending" /\ j \in Range(Tail(todo[t]))
                  THEN ScheduleNextRun([jobs[j] EXCEPT !.last_run = now], now).job
                  ELSE jobs[j]]
    /\ last' = Outcome(kind[t], NextJob(t),
                       IF jobs[NextJob(t)].job_func = NoFunc
                       THEN "TypeError" ELSE "ActionError", NoTime)
    /\ UNCHANGED <<now, ticks, kind, scanNow, scanNext>>

\* Job.run, line 160: self.job_func() raises (the action's own exception, or
\* TypeError when job_func is None); the exception leaves the runner.
ActionRaises(t) ==
    /\ pc[t] = "loop"
    /\ executed' = [executed EXCEPT ![t] = Append(@, NextJob(t))]
    /\ Leave(t)
    /\ last' = Outcome(kind[t], NextJob(t),
                       IF jobs[NextJob(t)].job_func = NoFunc
                       THEN "TypeError" ELSE "ActionError", NoTime)
    /\ UNCHANGED <<now, ticks, jobs, kind, scanNow, scanNext>>

\* Job.run, lines 161-162, at instant t
RunResult(job, t) == ScheduleNextRun([job EXCEPT !.last_run = t], t)

\* Job.run, lines 161-163, and the runner's loop up to the next job.run():
\* run_all sleeps delay_second, and either runner returns after its last job.
JobUpdate(t) ==
    /\ pc[t] = "update"
    /\ LET r == RunResult(jobs[cur[t]], now)
           slept == IF r.status = "ok" /\ kind[t] = "run_all" THEN delay[t] ELSE 0
           more == IF kind[t] = "run_pending" THEN todo[t] # <<>>
                   ELSE idx[t] < Len(jobs)
       IN /\ slept = 0 \/ ticks < MaxTicks
          /\ jobs' = [jobs EXCEPT ![cur[t]] = r.job]
          /\ now' = now + slept
          /\ ticks' = IF slept > 0 THEN ticks + 1 ELSE ticks
          /\ IF r.status = "ok" /\ more
             THEN /\ pc' = [pc EXCEPT ![t] = "loop"]
                  /\ idx' = [idx EXCEPT ![t] = IF kind[t] = "run_all" THEN @ + 1 ELSE @]
                  /\ cur' = [cur EXCEPT ![t] = 0]
                  /\ UNCHANGED <<todo, delay, last>>
             ELSE /\ Leave(t)
                  /\ last' = Outcome(kind[t], IF r.status = "ok" THEN 0 ELSE cur[t],
                                     r.status, NoTime)
    /\ UNCHANGED <<kind, executed, scanNow, scanNext>>

\* The steps of a runner call after its first.
Step(t) ==
    \/ ActionReturns(t)
    \/ ActionRaises(t)
    \/ JobUpdate(t)

\* The registry specification: several jobs, two units, jobs configured
\* before do() is called on them.
Next ==
    \/ Tick(TickSteps)
    \/ Every(RegistryIntervals, MaxJobs)
    \/ Singular(RegistryUnits, FALSE)
    \/ Plural(RegistryUnits, FALSE)
    \/ At(FALSE)
    \/ Do
    \/ \E t \in MainThread : RunPending(t)
    \/ \E t \in MainThread : RunAll(t, Delays)
    \/ \E t \in MainThread : Step(t)

Spec == Init /\ [][Next]_vars

\* The single-job specification: one job, every unit and interval,
\* reconfigured at will, polled with run_pending.
NextOne ==
    \/ Tick(LongTickSteps)
    \/ Every(Intervals, 1)
    \/ Singular(Units, TRUE)
    \/ Plural(Units, TRUE)
    \/ At(TRUE)
    \/ Do
    \/ \E t \in MainThread : RunPending(t)
    \/ \E t \in MainThread : Step(t)

SpecOne == Init /\ [][NextOne]_vars

\* The query specification: the registry read through next_run and
\* idle_seconds between the other calls.
NextQuery ==
    \/ Tick(TickSteps)
    \/ Every(RegistryIntervals, MaxJobs)
    \/ Plural(RegistryUnits, FALSE)
    \/ Do
    \/ QueryNextRun
    \/ QueryIdleSeconds
    \/ \E t \in MainThread : RunPending(t)
    \/ \E t \in MainThread : RunAll(t, {0})
    \/ \E t \in MainThread : Step(t)

SpecQuery == Init /\ [][NextQuery]_vars

\* The two-thread specification: seconds jobs polled with run_pending from
\* two threads, whose steps interleave.
NextTwo ==
    \/ Tick(TickSteps)
    \/ Every(RegistryIntervals, MaxJobs)
    \/ Plural({"seconds"}, FALSE)
    \/ Do
    \/ \E t \in Threads : RunPending(t)
    \/ \E t \in Threads : Step(t)

SpecTwo == Init /\ [][NextTwo]_vars

\* ------------------------------------------------------------- properties

\* The duration of one unit as the specification gives it, in seconds.
Duration(unit) ==
    CASE unit = "seconds" -> 1
      [] unit = "minutes" -> 60
      [] unit = "hours" -> 60 * 60
      [] unit = "days" -> 24 * 60 * 60
      [] unit = "weeks" -> 7 * 24 * 60 * 60

\* This step is do() called on job j.
DoStep(j) ==
    /\ last'.op = "do"
    /\ last'.job = j
    /\ now' = now
    /\ pc' = pc
    /\ <<jobs, last>>' # <<jobs, last>>

\* This step is the update half of Job.run (lines 161-163) in caller t.
UpdateStep(t) == pc[t] = "update" /\ pc'[t] # "update"

\* This step is a job's action raising in caller t.
RaiseStep(t) == pc[t] = "loop" /\ pc'[t] = "idle"

\* The jobs that were due at the scan of caller t's run_pending.
DueAtScan(t) ==
    {j \in DOMAIN scanNext[t] :
        scanNext[t][j] # NoTime /\ scanNext[t][j] <= scanNow[t]}

\* Caller t's run_pending has ended and no action raised in it.
PendingEnded(t) ==
    /\ kind[t] = "run_pending"
    /\ pc[t] = "idle"
    /\ last.op = "run_pending"
    /\ last.status # "ActionError"

\* C1: for every registry state and instant, a run_pending call (in which no
\* action raises) executes exactly the jobs whose nextRun <= now at the scan,
\* none omitted and none added, in ascending order of nextRun.
C1_RunsExactlyTheDueJobs ==
    \A t \in Threads :
        PendingEnded(t) =>
            /\ Range(executed[t]) = DueAtScan(t)
            /\ Len(executed[t]) = Cardinality(DueAtScan(t))
            /\ \A i, k \in DOMAIN executed[t] :
                  i < k => scanNext[t][executed[t][i]] <= scanNext[t][executed[t][k]]

\* C2: two due jobs with the same nextRun are executed by run_pending in
\* registration order, the one registered first before the other.
C2_TiesInRegistrationOrder ==
    \A t \in Threads :
        kind[t] = "run_pending" =>
            \A i, k \in DOMAIN executed[t] :
                (i < k /\ scanNext[t][executed[t][i]] = scanNext[t][executed[t][k]])
                    => executed[t][i] < executed[t][k]

\* The start of the hour an instant lies in.
HourStart(t) == t - (t % 3600)

\* Caller t's run_pending is about to update a job that is still due, that
\* has an interval of at least 1, and whose action has returned.
UpdatesDueJob(t) ==
    /\ UpdateStep(t)
    /\ kind[t] = "run_pending"
    /\ jobs[cur[t]].interval >= 1
    /\ HasNextRun(jobs[cur[t]])
    /\ jobs[cur[t]].next_run <= now

\* C3 as stated: after run_pending executes a due job whose action completes
\* normally, its nextRun is strictly greater than before and at least one
\* full period (interval x unit duration) later than the execution instant,
\* and its lastRun is the execution instant, with or without an anchor time.
C3_NextRunAFullPeriodLater ==
    [][\A t \in Threads :
          UpdatesDueJob(t) =>
              LET old == jobs[cur[t]]
                  new == jobs'[cur[t]]
              IN /\ new.last_run = now
                 /\ new.next_run > old.next_run
                 /\ new.next_run >= now + old.interval * Duration(old.unit)]_vars

\* C3 as amended: after run_pending executes a due job whose action completes
\* normally, its lastRun is the execution instant and its nextRun is strictly
\* greater than before and later than the execution instant; nextRun is at
\* least one full period later than the execution instant unless the job is
\* an hours job with an anchor minute, and then it is the anchor minute of
\* the hour that lies interval hours ahead, less than one hour short of a
\* full period.
C3_NextRunMovesForward ==
    [][\A t \in Threads :
          UpdatesDueJob(t) =>
              LET old == jobs[cur[t]]
                  new == jobs'[cur[t]]
                  full == now + old.interval * Duration(old.unit)
              IN /\ new.last_run = now
                 /\ new.next_run > old.next_run
                 /\ new.next_run > now
                 /\ IF old.unit = "hours" /\ old.at_time # NoTime
                    THEN /\ new.next_run = HourStart(full) + 60 * (old.at_time % 60)
                         /\ new.next_run > full - 3600
                    ELSE new.next_run >= full]_vars

\* C3 witness: run_pending has just rescheduled a due hours job with an
\* anchor minute to less than a full period after its execution instant.
C3_Witness ==
    \E t \in Threads, j \in DOMAIN jobs :
        /\ kind[t] = "run_pending"
        /\ j \in Range(executed[t])
        /\ jobs[j].unit = "hours"
        /\ jobs[j].at_time # NoTime
        /\ jobs[j].interval >= 1
        /\ jobs[j].last_run = now
        /\ jobs[j].next_run > now
        /\ jobs[j].next_run < now + jobs[j].interval * 3600

\* C4: when a job's action raises during run_pending or run_all the exception
\* reaches the caller and the job's lastRun and nextRun are what they were;
\* a job that was due is still due, and a run_pending scan selects it (every
\* scan selects each job that is due).
C4_RaisingActionLeavesJobDue ==
    [][\A t \in Threads :
          /\ RaiseStep(t) =>
                LET j == NextJob(t)
                IN /\ last'.op = kind[t]
                   /\ last'.job = j
                   /\ last'.status \in {"ActionError", "TypeError"}
                   /\ jobs'[j].last_run = jobs[j].last_run
                   /\ jobs'[j].next_run = jobs[j].next_run
                   /\ (HasNextRun(jobs[j]) /\ ShouldRun(jobs[j], now)) =>
                         /\ ShouldRun(jobs'[j], now')
                         /\ (\A i \in DOMAIN jobs' : HasNextRun(jobs'[i])) =>
                               j \in Range(ListSort(DueFrom(jobs', now', 1), jobs'))
          /\ (pc[t] = "idle" /\ pc'[t] = "loop" /\ kind'[t] = "run_pending") =>
                \A j \in DOMAIN jobs :
                    ShouldRun(jobs[j], now) => j \in Range(todo'[t])
          /\ now' >= now]_vars

\* C4 witness: the action of a due job has raised in run_pending, the caller
\* has the exception, and the job, untouched, is still due.
C4_Witness ==
    \E t \in Threads :
        /\ kind[t] = "run_pending"
        /\ pc[t] = "idle"
        /\ last.op = "run_pending"
        /\ last.status = "ActionError"
        /\ jobs[last.job].next_run = scanNext[t][last.job]
        /\ ShouldRun(jobs[last.job], now)
        /\ Len(executed[t]) = 2

\* C5: do() on a job with a valid unit, interval >= 1, no anchor time and no
\* prior run, at instant now, succeeds and sets nextRun to
\* now + interval x unit duration, for each of the five units.
C5_FirstNextRunIsNowPlusPeriod ==
    [][\A j \in DOMAIN jobs :
          (/\ DoStep(j)
           /\ jobs[j].unit \in Units
           /\ jobs[j].interval >= 1
           /\ jobs[j].at_time = NoTime
           /\ jobs[j].last_run = NoTime) =>
              /\ last'.status = "ok"
              /\ jobs'[j].next_run = now + jobs[j].interval * Duration(jobs[j].unit)]_vars

\* C5 witness: do() has just activated an every-2-weeks job without anchor.
C5_Witness ==
    /\ last.op = "do"
    /\ last.status = "ok"
    /\ \E j \in DOMAIN jobs :
          /\ last.job = j
          /\ jobs[j].unit = "weeks"
          /\ jobs[j].interval = 2
          /\ jobs[j].at_time = NoTime
          /\ jobs[j].last_run = NoTime
          /\ jobs[j].next_run = now + 2 * 7 * 86400

\* C6: do() on a days job with an anchor time HH:MM and no prior run succeeds,
\* and the first nextRun is today at HH:MM:00 when the anchor is later than
\* now's time of day, and tomorrow at HH:MM:00 when it has passed.
C6_DailyAnchorFirstRun ==
    [][\A j \in DOMAIN jobs :
          (/\ DoStep(j)
           /\ jobs[j].unit = "days"
           /\ jobs[j].at_time # NoTime
           /\ jobs[j].last_run = NoTime) =>
              LET today == now - (now % 86400)
                  anchor == 60 * jobs[j].at_time
              IN /\ last'.status = "ok"
                 /\ jobs'[j].next_run =
                       IF anchor > now % 86400 THEN today + anchor
                       ELSE today + 86400 + anchor]_vars

\* C7: do() on an hours job with anchor minute m and no prior run, when m is
\* greater than now's minute, puts the first nextRun in the current hour of
\* now at minute m, second 0, whatever the interval (>= 1).
C7_HourlyAnchorInCurrentHour ==
    [][\A j \in DOMAIN jobs :
          (/\ DoStep(j)
           /\ jobs[j].unit = "hours"
           /\ jobs[j].interval >= 1
           /\ jobs[j].at_time # NoTime
           /\ jobs[j].last_run = NoTime
           /\ jobs[j].at_time % 60 > (now \div 60) % 60) =>
              jobs'[j].next_run = HourStart(now) + 60 * (jobs[j].at_time % 60)]_vars

\* The job was rescheduled at instant t as a run leaves it: lastRun is t and
\* nextRun is what section 4.1 computes from t for a job that has run (a job
\* without a unit cannot be rescheduled and keeps its nextRun).
Rescheduled(old, new, t) ==
    /\ new.last_run = t
    /\ new.next_run =
          IF old.unit \notin Units
          THEN old.next_run
          ELSE IF old.unit = "hours" /\ old.at_time # NoTime
          THEN HourStart(t + old.interval * 3600) + 60 * (old.at_time % 60)
          ELSE t + old.interval * Duration(old.unit)

\* C8: run_all executes every registered job once per call in registration
\* order, due or not (the k-th job it executes is the k-th job of the
\* registry, and a call that returns has executed them all), and after each
\* execution lastRun and nextRun are updated as run_pending updates them.
C8_RunAllRunsEveryJobInOrder ==
    /\ [](\A t \in Threads :
             kind[t] = "run_all" =>
                 /\ \A i \in DOMAIN executed[t] : executed[t][i] = i
                 /\ Len(executed[t]) <= Len(jobs)
                 /\ (pc[t] = "idle" /\ last.op = "run_all" /\ last.status = "ok") =>
                       Len(executed[t]) = Len(jobs))
    /\ [][\A t \in Threads :
             UpdateStep(t) =>
                 Rescheduled(jobs[cur[t]], jobs'[cur[t]], now)]_vars

\* C8 witness: a run_all call has returned after executing both jobs of the
\* registry, the second of which was not due.
C8_Witness ==
    \E t \in Threads :
        /\ kind[t] = "run_all"
        /\ pc[t] = "idle"
        /\ last.op = "run_all"
        /\ last.status = "ok"
        /\ executed[t] = <<1, 2>>
        /\ jobs[2].last_run # NoTime
        /\ jobs[2].last_run < jobs[2].next_run - jobs[2].period
        /\ jobs[2].unit = "hours"

\* The callers are all between calls.
AllIdle == \A t \in Threads : pc[t] = "idle"

\* C9: in every reachable state with a non-empty registry, next_run returns
\* the minimum nextRun over all the jobs of the registry.
C9_NextRunIsTheMinimum ==
    (AllIdle /\ last.op = "next_run" /\ jobs # <<>>) =>
        /\ last.status = "ok"
        /\ \E j \in DOMAIN jobs : last.val = jobs[j].next_run
        /\ \A j \in DOMAIN jobs : last.val <= jobs[j].next_run

\* C10: on an empty registry next_run returns None and idle_seconds raises
\* instead of returning a duration.
C10_EmptyRegistryQueries ==
    (AllIdle /\ jobs = <<>>) =>
        /\ last.op = "next_run" => (last.status = "ok" /\ last.val = NoTime)
        /\ last.op = "idle_seconds" => last.status = "TypeError"
        /\ NextRunResult(jobs).val = NoTime

\* C10 witness: idle_seconds has been read on the empty registry and raised.
C10_Witness ==
    /\ jobs = <<>>
    /\ last.op = "idle_seconds"
    /\ last.status = "TypeError"

\* This step is a singular unit accessor read on job j.
SingularStep(j) ==
    /\ last'.op = "singular"
    /\ last'.job = j
    /\ now' = now
    /\ pc' = pc
    /\ <<jobs, last>>' # <<jobs, last>>

\* This step is at() called on job j.
AtStep(j) ==
    /\ last'.op = "at"
    /\ last'.job = j
    /\ now' = now
    /\ pc' = pc
    /\ <<jobs, last>>' # <<jobs, last>>

\* This step is every() registering a job.
EveryStep ==
    /\ last'.op = "every"
    /\ now' = now
    /\ pc' = pc
    /\ <<jobs, last>>' # <<jobs, last>>

\* C11: a do() call on a fresh job that fails with the configuration error
\* (unit never set, or anchor time present while the unit is not hours or
\* days) commits no partial state: afterwards the job has no bound action and
\* no nextRun, so no later run_pending can execute it.
C11_FailedDoCommitsNothing ==
    [][\A j \in DOMAIN jobs :
          (/\ DoStep(j)
           /\ jobs[j].job_func = NoFunc
           /\ jobs[j].next_run = NoTime
           /\ last'.status = "SchedulerValueError") =>
              /\ jobs'[j].job_func = NoFunc
              /\ jobs'[j].next_run = NoTime]_vars

\* C12: a singular unit accessor raises IntervalError whenever the job's
\* interval is not 1 and then leaves the job (its unit included) unchanged;
\* with interval 1 it succeeds and changes the job as the plural accessor of
\* the same unit does, setting the unit to one of the five and nothing else.
C12_SingularAccessorNeedsIntervalOne ==
    [][\A j \in DOMAIN jobs :
          SingularStep(j) =>
              IF jobs[j].interval # 1
              THEN /\ last'.status = "IntervalError"
                   /\ jobs' = jobs
              ELSE /\ last'.status = "ok"
                   /\ \E u \in Units :
                         jobs' = [jobs EXCEPT ![j] = [jobs[j] EXCEPT !.unit = u]]]_vars

\* C12 witness: a singular accessor has just been refused on an every-2 job
\* whose unit, set through a plural accessor before, is still hours.
C12_Witness ==
    /\ last.op = "singular"
    /\ last.status = "IntervalError"
    /\ \E j \in DOMAIN jobs :
          /\ last.job = j
          /\ jobs[j].interval = 2
          /\ jobs[j].unit = "hours"

\* C13: at() on a job whose unit is seconds, minutes, weeks or unset fails
\* with SchedulerValueError, whatever the time string (well-formed or not).
C13_AtNeedsHoursOrDays ==
    [][\A j \in DOMAIN jobs :
          (AtStep(j) /\ jobs[j].unit \in {"seconds", "minutes", "weeks", NoUnit}) =>
              last'.status = "SchedulerValueError"]_vars

\* C13 witness: at() has just been refused on a weeks job.
C13_Witness ==
    /\ last.op = "at"
    /\ last.status = "SchedulerValueError"
    /\ \E j \in DOMAIN jobs : last.job = j /\ jobs[j].unit = "weeks"

\* C14: an at() call that is rejected (wrong unit, hour outside 0..23 on a
\* days job, minute outside 0..59, malformed string) leaves the job's anchor
\* time as it was before the call, and its unit, nextRun and lastRun too.
C14_RejectedAtChangesNothing ==
    [][\A j \in DOMAIN jobs :
          (AtStep(j) /\ last'.status # "ok") =>
              /\ jobs'[j].at_time = jobs[j].at_time
              /\ jobs'[j].unit = jobs[j].unit
              /\ jobs'[j].next_run = jobs[j].next_run
              /\ jobs'[j].last_run = jobs[j].last_run
              /\ jobs' = jobs]_vars

\* C14 witness: at() has just been refused on a days job that has an anchor
\* time from an earlier, accepted call, and the anchor is still there.
C14_Witness ==
    /\ last.op = "at"
    /\ last.status = "SchedulerValueError"
    /\ \E j \in DOMAIN jobs :
          /\ last.job = j
          /\ jobs[j].unit = "days"
          /\ jobs[j].at_time = 30

\* C15: every job of the registry has interval >= 1 in every reachable state
\* (every(n) with n < 1 registers nothing), so no job has a zero or negative
\* period.
C15_IntervalAtLeastOne ==
    \A j \in DOMAIN jobs :
        /\ jobs[j].interval >= 1
        /\ jobs[j].period # NoTime => jobs[j].period > 0

\* C16: when two threads call run_pending concurrently, the scan-execute-
\* update sequence of one call excludes that of the other: no two calls are
\* in progress at once, no job is in the middle of Job.run while another
\* thread scans, and a job that is due once (one nextRun value) is executed
\* by only one of the two calls.
C16_RunPendingMutuallyExclusive ==
    \A t, u \in Threads :
        t # u =>
            /\ pc[t] = "idle" \/ pc[u] = "idle"
            /\ (kind[t] = "run_pending" /\ kind[u] = "run_pending") =>
                  \A j \in Range(executed[t]) \cap Range(executed[u]) :
                      scanNext[t][j] # scanNext[u][j]

\* C16, the double execution alone: a job that is due once is not executed
\* by both of two overlapping run_pending calls.
C16_DueOnceExecutedOnce ==
    \A t, u \in Threads :
        (t # u /\ kind[t] = "run_pending" /\ kind[u] = "run_pending") =>
            \A j \in Range(executed[t]) \cap Range(executed[u]) :
                scanNext[t][j] # scanNext[u][j]

\* C17: the registry is append-only and insertion-ordered.  A step of every()
\* leaves the jobs already registered where and as they are and adds exactly
\* one fresh job after them; every other step (unit selection, at, do,
\* run_pending, run_all, failing or not) keeps the length of the registry,
\* keeps each position's interval, and changes the job of at most one
\* position, so it neither removes nor reorders jobs.
C17_RegistryAppendOnly ==
    [][IF EveryStep
       THEN /\ Len(jobs') = Len(jobs) + 1
            /\ SubSeq(jobs', 1, Len(jobs)) = jobs
            /\ \E n \in Intervals : jobs'[Len(jobs')] = NewJob(n)
            /\ last'.job = Len(jobs')
       ELSE /\ Len(jobs') = Len(jobs)
            /\ \A j \in DOMAIN jobs : jobs'[j].interval = jobs[j].interval
            /\ Cardinality({j \in DOMAIN jobs : jobs'[j] # jobs[j]}) <= 1]_vars

\* C17 witness: every() has just appended a fresh second job behind a first
\* job that is activated and has already run.
C17_Witness ==
    /\ last.op = "every"
    /\ Len(jobs) = 2
    /\ last.job = 2
    /\ jobs[2].job_func = NoFunc
    /\ jobs[2].unit = NoUnit
    /\ jobs[1].job_func = BoundFunc
    /\ jobs[1].last_run # NoTime

\* The instants of the hour now lies in, at seconds 0, 1 and 59 of each of
\* its minutes.
InstantsOfHour ==
    {HourStart(now) + 60 * m + sec : m \in 0..59, sec \in {0, 1, 59}}

\* The job is an hours job with an anchor minute that has not run yet.
HourlyAnchoredFresh(job) ==
    /\ job.unit = "hours"
    /\ job.at_time # NoTime
    /\ job.last_run = NoTime

NoDuplicates(s) == \A i, k \in DOMAIN s : i # k => s[i] # s[k]

\* C19: run_pending fixes its set of due jobs before it executes any of
\* them: within one call each job is executed at most once, and only jobs
\* that were registered and due at the scan are executed, so a job that
\* becomes due or is registered while the call is executing earlier jobs
\* waits for a later call.
C19_DueSetFixedAtScan ==
    \A t \in Threads :
        kind[t] = "run_pending" =>
            /\ NoDuplicates(executed[t])
            /\ Range(executed[t]) \subseteq DueAtScan(t)
            /\ Range(todo[t]) \subseteq DueAtScan(t)
            /\ Range(todo[t]) \cap Range(executed[t]) = {}

\* C19 witness: a run_pending call has returned after executing the first
\* job; the second job, not due at the scan, became due while the call was
\* in progress and was not executed.
C19_Witness ==
    \E t \in Threads :
        /\ kind[t] = "run_pending"
        /\ pc[t] = "idle"
        /\ last.op = "run_pending"
        /\ last.status = "ok"
        /\ executed[t] = <<1>>
        /\ Len(scanNext[t]) = 2
        /\ scanNext[t][2] > scanNow[t]
        /\ jobs[2].next_run = scanNext[t][2]
        /\ jobs[2].job_func = BoundFunc
        /\ jobs[2].next_run <= now

\* C20: when a job's action raises during run_pending, the call ends there:
\* the due jobs ordered after it are not executed and keep their lastRun and
\* nextRun (those that were due are still due, and the next scan selects
\* them), and the jobs executed before it keep the lastRun and nextRun their
\* runs gave them.
C20_RaiseStopsTheCall ==
    [][\A t \in Threads :
          (RaiseStep(t) /\ kind[t] = "run_pending") =>
              /\ executed'[t] = Append(executed[t], Head(todo[t]))
              /\ todo'[t] = <<>>
              /\ \A j \in Range(Tail(todo[t])) :
                    /\ jobs'[j].last_run = jobs[j].last_run
                    /\ jobs'[j].next_run = jobs[j].next_run
                    /\ ShouldRun(jobs[j], now) =>
                          /\ ShouldRun(jobs'[j], now')
                          /\ (\A i \in DOMAIN jobs' : HasNextRun(jobs'[i])) =>
                                j \in Range(ListSort(DueFrom(jobs', now', 1), jobs'))
              /\ \A j \in Range(executed[t]) :
                    /\ jobs'[j].last_run = jobs[j].last_run
                    /\ jobs'[j].next_run = jobs[j].next_run
                    /\ jobs[j].last_run >= scanNow[t]]_vars

\* C20 witness: the action of the first of two due jobs has raised in
\* run_pending; the other due job was not executed, has its nextRun of the
\* scan and is still due.
C20_Witness ==
    \E t \in Threads :
        /\ kind[t] = "run_pending"
        /\ pc[t] = "idle"
        /\ last.op = "run_pending"
        /\ last.status = "ActionError"
        /\ Len(executed[t]) = 1
        /\ \E j \in DueAtScan(t) :
              /\ j \notin Range(executed[t])
              /\ jobs[j].next_run = scanNext[t][j]
              /\ jobs[j].last_run = NoTime
              /\ ShouldRun(jobs[j], now)
====
